---- MODULE Spec2Model ----
(***************************************************************************)
(* Model of dtdatalog: the Keithley 2700 protocol client (keithley.py),    *)
(* the file writer and sampling thread (datalog.py) and the orchestrator   *)
(* (Program.run in __init__.py).                                           *)
(*                                                                         *)
(* Numbers.  Python floats are modelled as fixed-point integers with three *)
(* decimals (1000 = 1.0): readings in ohms or millivolts, temperatures in  *)
(* degrees C.  alpha is kept in units of 1e-5 (385 = 0.00385).             *)
(*                                                                         *)
(* Text.  A line on the transport is a sequence of tokens: digits, sign,   *)
(* comma, quote and newline are one-character tokens, other runs of text   *)
(* are kept as one word.  The instrument formats numbers into digits and   *)
(* the client parses them back.                                            *)
(*                                                                         *)
(* Optional values.  None is the empty tuple, a value v is <<v>>.          *)
(***************************************************************************)
EXTENDS Integers, Sequences, FiniteSets, TLC

\* Bound on the number of acquisition cycles of the sampling loop.
MaxCycles == 2
\* The consecutive empty readline() results are counted modulo this + 1.
MaxTimeouts == 1
\* Bound on the number of sleep(60) wake-ups of the orchestrator.
MaxWakeups == 1

None == <<>>
Some(v) == <<v>>

----------------------------------------------------------------------------
(* Text helpers: str.split, str.strip, int(), float() and number output.   *)

Digit == <<"0", "1", "2", "3", "4", "5", "6", "7", "8", "9">>

IsDigit(c) == \E d \in 1..10 : Digit[d] = c

DigitVal(c) == (CHOOSE d \in 1..10 : Digit[d] = c) - 1

RECURSIVE Digits(_)
Digits(n) ==
    IF n < 10 THEN <<Digit[n + 1]>>
    ELSE Digits(n \div 10) \o <<Digit[(n % 10) + 1]>>

\* The instrument's output of a number: an optional sign and its digits.
Number(n) == IF n < 0 THEN <<"-">> \o Digits(-n) ELSE Digits(n)

\* The number the first i digits of s spell.
RECURSIVE ParseDigits(_, _)
ParseDigits(s, i) ==
    IF i = 0 THEN 0 ELSE ParseDigits(s, i - 1) * 10 + DigitVal(s[i])

ParseNat(s) == ParseDigits(s, Len(s))

Unsigned(s) == IF s # <<>> /\ Head(s) \in {"-", "+"} THEN Tail(s) ELSE s

\* Whether int(s) / float(s) accepts the text s.
IsNumber(s) ==
    /\ Unsigned(s) # <<>>
    /\ \A i \in 1..Len(Unsigned(s)) : IsDigit(Unsigned(s)[i])

\* int(s) and float(s) of an accepted text.
ParseInt(s) ==
    IF Head(s) = "-" THEN 0 - ParseNat(Tail(s)) ELSE ParseNat(Unsigned(s))

\* str.split(sep): the pieces between the separators, all of them.  The
\* j-th piece runs from behind the (j-1)-th separator to the j-th one.
Split(s, sep) ==
    LET at == {i \in 1..Len(s) : s[i] = sep}
        pos(j) == IF j = 0 THEN 0
                  ELSE IF j > Cardinality(at) THEN Len(s) + 1
                  ELSE CHOOSE i \in at : Cardinality({k \in at : k < i}) = j - 1
    IN  [j \in 1..(Cardinality(at) + 1) |->
            SubSeq(s, pos(j - 1) + 1, pos(j) - 1)]

\* str.strip(chars): drop the tokens of chars at both ends.
RECURSIVE Strip(_, _)
Strip(s, chars) ==
    IF s = <<>> THEN s
    ELSE IF Head(s) \in chars THEN Strip(Tail(s), chars)
    ELSE IF s[Len(s)] \in chars THEN Strip(SubSeq(s, 1, Len(s) - 1), chars)
    ELSE s

Whitespace == {" ", "\n", "\r"}

\* A fixed-point number as Python prints it in a command ("0.1").
FormatFix3(r) == ToString(r \div 1000) \o "." \o ToString((r % 1000) \div 100)

----------------------------------------------------------------------------
(* Conversions (ConversionEngine).                                          *)

\* a * x / d without overflowing 32 bits: a = (a \div d) * d + (a % d).
\* (v ranges over the one value of a, so that a is evaluated once.)
MulDiv(a, x, d) ==
    CHOOSE r \in {(v \div d) * x + ((v % d) * x) \div d : v \in {a}} : TRUE

\* THERMOCOUPLE_TABLES: (mv_max, coefficients low to high).  mv_max is in
\* thousandths of a millivolt; coefficient k is in thousandths of a degree
\* per (10 mV)^k, so that every coefficient keeps its leading digits.
THERMOCOUPLE_TABLES ==
    [K |-> << [mv_max |-> 0,
               poly |-> <<0, 251735, -116629, -1083364, -8977354, -37342377,
                          -86632643, -104505980, -51920577>>],
              [mv_max |-> 20644,
               poly |-> <<0, 250836, 7860, -250313, 831527, -1228034, 980404,
                          -441303, 105773, -10528>>],
              [mv_max |-> 54886,
               poly |-> <<-131806, 483022, -164603, 54647, -9651, 880, -31>>]
           >>]

\* Polynomial.__call__: the power series at x, by Horner's rule; x is in
\* thousandths of a millivolt, that is x / 10000 in units of 10 mV.
RECURSIVE Polynomial(_, _)
Polynomial(coef, x) ==
    IF coef = <<>> THEN 0
    ELSE Head(coef) + MulDiv(Polynomial(Tail(coef), x), x, 10000)

Abs(x) == IF x < 0 THEN 0 - x ELSE x

\* rtd_to_deg_c: (ohms / ro - 1) / alpha, alpha = alphaE5 / 100000.
rtd_to_deg_c(ohms, alphaE5, ro) ==
    ((((ohms - ro * 1000) * 100) \div alphaE5) * 1000) \div ro

\* A loop that skips an entry only when mv is above its mv_max.
RECURSIVE FirstEntryInclusive(_, _, _)
FirstEntryInclusive(table, mv, i) ==
    IF i > Len(table) THEN 0
    ELSE IF mv > table[i].mv_max THEN FirstEntryInclusive(table, mv, i + 1)
    ELSE i

\* The first table entry the loop of thermocouple_to_deg_c does not skip
\* (0 when it skips them all).
RECURSIVE FirstEntry(_, _, _)
FirstEntry(table, mv, i) ==
    IF i > Len(table) THEN 0
    ELSE IF mv >= table[i].mv_max THEN FirstEntry(table, mv, i + 1)
    ELSE i

\* thermocouple_to_deg_c.  cjt is the attribute cold_junction_temp: <<>>
\* while it has never been assigned, <<t>> afterwards.  Returns the record
\* [exc, val]: the exception raised ("" when none) and the optional value.
thermocouple_to_deg_c(mv, sensor_type, cjt) ==
    LET table == THERMOCOUPLE_TABLES[sensor_type]
        i == FirstEntry(table, mv, 1)
    IN  IF Abs(mv) > 100000 THEN [exc |-> "", val |-> None]
        ELSE IF i = 0 THEN [exc |-> "", val |-> None]
        ELSE IF cjt = <<>> THEN [exc |-> "AttributeError", val |-> None]
        ELSE [exc |-> "", val |-> Some(Polynomial(table[i].poly, mv) + cjt[1])]

----------------------------------------------------------------------------
(* Channel descriptors (class Channel and its subclasses).  kws holds the   *)
(* keyword arguments with the defaults of the functions that receive them  *)
(* filled in; aper and range are optional (None when not given).  args    *)
(* holds what is passed to add() by position after the channel.            *)

DefaultKws ==
    [alpha |-> 385, ro |-> 1000, cold_junction |-> FALSE,
     sensor_type |-> "K", aper |-> None, range |-> None]

Channel(func, name, ch) ==
    [func |-> func, name |-> name, channel |-> ch, args |-> <<>>,
     kws |-> DefaultKws]

\* A channel added as the script of keithley.py adds it: the call
\* k.add(func, channel, *args), the parameters given by position.
AddCall(func, ch, args) ==
    [func |-> func, name |-> "CH", channel |-> ch, args |-> args,
     kws |-> DefaultKws]

RTD(name, ch, cold_junction) ==
    [func |-> "RTD", name |-> name, channel |-> ch, args |-> <<>>,
     kws |-> [DefaultKws EXCEPT !.cold_junction = cold_junction]]

Thermocouple(name, ch) ==
    [func |-> "THERMOCOUPLE", name |-> name, channel |-> ch, args |-> <<>>,
     kws |-> DefaultKws]

\* The class attribute `channels` of the data thread classes a program may
\* define: the thermocouple block's first two channels, the same in the
\* other order, single channels, internal (< 100) channels, an internal
\* channel added with aperture 0.1 and range 10 by position, no channel.
ChannelLists ==
    { <<RTD("RTD", 106, TRUE), Thermocouple("T12", 112)>>,
      <<Thermocouple("T12", 112), RTD("RTD", 106, TRUE)>>,
      <<RTD("RTD", 106, TRUE)>>,
      <<Channel("RES", "R0", 0)>>,
      <<Channel("VOLT:DC", "V1", 1), RTD("RTD", 106, FALSE)>>,
      <<Channel("VOLT:AC", "VAC", 107)>>,
      <<Channel("RES", "R0", 0), Channel("VOLT:DC", "V1", 1)>>,
      <<AddCall("VOLT:DC", 1, <<100, 10000>>)>>,
      <<>> }

\* The tuple of function names add() accepts, as the source spells it:
\* the literals "VOLT:AC" "CURR:DC" are adjacent and make one string.
ValidFuncs ==
    {"VOLT:DC", "VOLT:AC" \o "CURR:DC", "CURR:AC", "RES", "FRES", "TEMP",
     "FREQ", "PER", "CONT", "RTD", "THERMOCOUPLE"}

\* The range setup_ch forces for a thermocouple (0.1).
ThermocoupleRange == 100

clist(channel) ==
    IF channel >= 100 THEN ", (@" \o ToString(channel) \o ")" ELSE ""

\* setup_ch: the configuration commands, in the order they are sent.
setup_ch(func, channel, aper, range) ==
    LET f == IF func = "RTD" THEN "RES"
             ELSE IF func = "THERMOCOUPLE" THEN "VOLT:DC" ELSE func
        r == IF func = "THERMOCOUPLE" THEN Some(ThermocoupleRange) ELSE range
    IN  <<"FUNC '" \o f \o "'" \o clist(channel)>>
        \o <<IF r = None THEN f \o ":RANG:AUTO ON" \o clist(channel)
             ELSE f \o ":RANG " \o FormatFix3(r[1]) \o clist(channel)>>
        \o (IF aper # None /\ aper[1] # 0
            THEN <<f \o ":APER " \o FormatFix3(aper[1]) \o clist(channel)>>
            ELSE <<>>)

\* A call setup_ch(func, *pos, **kws): the positional arguments (in
\* thousandths) fill channel, aper and range in this order, the keywords
\* the rest.  The channel list names whole channels only.
setup_ch_call(func, pos, kws) ==
    setup_ch(func,
             IF Len(pos) >= 1 THEN pos[1] \div 1000 ELSE 0,
             IF Len(pos) >= 2 THEN Some(pos[2]) ELSE kws.aper,
             IF Len(pos) >= 3 THEN Some(pos[3]) ELSE kws.range)

\* The FUNC commands setup_ch writes for channels below 100: those
\* without a channel list.
FuncSelects ==
    {setup_ch(func, 0, None, None)[1] : func \in ValidFuncs}

\* The commands the instrument answers with a line.
QueryCommands == {"*IDN?", "SYST:ERR?", "READ?"}

\* The queries among the lines written, in order.
Queries(lines) == SelectSeq(lines, LAMBDA l : l \in QueryCommands)

\* A _command that asks for the error twice.
command_writes_twice(cmd, error) ==
    IF error THEN <<"SYST:CLE", cmd, "SYST:ERR?", "SYST:ERR?">> ELSE <<cmd>>

\* A _command that does not clear the error queue first.
command_writes_noclear(cmd, error) ==
    IF error THEN <<cmd, "SYST:ERR?">> ELSE <<cmd>>

\* The lines _command(cmd, error) writes to the serial port, in order.
command_writes(cmd, error) ==
    IF error THEN <<"SYST:CLE", cmd, "SYST:ERR?">> ELSE <<cmd>>

\* dict assignment d[key] = entry on an insertion-ordered dict.
DictSet(d, entry) ==
    IF \E i \in 1..Len(d) : d[i].channel = entry.channel
    THEN [i \in 1..Len(d) |->
             IF d[i].channel = entry.channel THEN entry ELSE d[i]]
    ELSE Append(d, entry)

DictHas(d, channel) == \E i \in 1..Len(d) : d[i].channel = channel

DictGet(d, channel) == d[CHOOSE i \in 1..Len(d) : d[i].channel = channel]

----------------------------------------------------------------------------
(* The instrument's answers.                                                *)

ErrLine(code, text) == Number(code) \o <<",", "\"">> \o text \o <<"\"", "\n">>

\* Answers to SYST:ERR?: code, comma, quoted message.
ErrLines ==
    { ErrLine(0, <<"No error">>),
      ErrLine(350, <<"Queue overflow">>),
      ErrLine(-221, <<"Settings conflict", ",", " range">>) }

\* Answers to *IDN?.
IdnLines ==
    { <<"KEITHLEY", " INSTRUMENTS INC.", ",", "MODEL 2700", "\n">>,
      <<"OTHER", "\n">> }

\* Raw readings the instrument may return (ohms or millivolts, in
\* thousandths): below 0 mV, 0, between the breakpoints, above the last
\* breakpoint, above 100 mV (and 1080 ohms).
ReadingValues == {-1000, 0, 30000, 60000, 1080000}

\* Answers to READ?: reading with its 3-character unit, timestamp, count.
ReadingLine(v) ==
    Number(v) \o <<"UNT", ",", "+", "0", "SECS", ",", "+", "0", "RDNG#", "\n">>

Answers(q) ==
    IF q = "SYST:ERR?" THEN ErrLines
    ELSE IF q = "*IDN?" THEN IdnLines
    ELSE {ReadingLine(v) : v \in ReadingValues}

----------------------------------------------------------------------------
(* Formatting of the output file (FileWriter).                              *)

title_format == [width |-> 10, prec |-> None]
time_format == [width |-> 10, prec |-> Some(4)]
\* KeithleyDataThread.format overrides FileWriter.format.
format == [width |-> 10, prec |-> Some(3)]

\* str.format of one field: right-justified text of the value.
Field(fmt, v) == [width |-> fmt.width, prec |-> fmt.prec, text |-> <<v>>]

titles(chs) == [i \in 1..Len(chs) |-> chs[i].name]

\* The class attribute FileWriter.metadata as the class body leaves it:
\* an ordered dict (here its items, in order) holding the time of import.
ClassMetadata == <<[k |-> "Timestamp", v |-> "asctime"]>>

\* dict.update(arg) on an ordered dict: a key already present keeps its
\* place and takes the new value, a new key is appended.
RECURSIVE Update(_, _)
Update(d, arg) ==
    IF arg = <<>> THEN d
    ELSE Update(IF \E i \in 1..Len(d) : d[i].k = Head(arg).k
                THEN [i \in 1..Len(d) |->
                         IF d[i].k = Head(arg).k THEN Head(arg) ELSE d[i]]
                ELSE Append(d, Head(arg)),
                Tail(arg))

\* write_header: a comment line per item of self.metadata, then the title
\* line.
write_header(md, chs) ==
    [i \in 1..Len(md) |-> <<"# ", md[i].k, ": ", md[i].v, "\n">>]
    \o << <<Field(title_format, "TIME")>>
           \o [i \in 1..Len(chs) |-> Field(title_format, titles(chs)[i])] >>

\* Whether line_fmt.format(*values) raises TypeError: a value that is
\* None meets a numeric ("f") format.
FormatRaises(values) == \E i \in 1..Len(values) : values[i] = None

\* line_fmt.format(*values): the time, then a field per title.
FormatLine(values, ntitles) ==
    <<Field(time_format, values[1][1])>>
        \o [i \in 1..ntitles |-> Field(format, values[i + 1][1])]

----------------------------------------------------------------------------
(* State.                                                                   *)

VARIABLES
    channels,   \* the data thread class's `channels` (descriptors, in order)
    mpc,        \* Program.run: "init", "connect", "waiting", "exiting",
                \*   "joining", "done", "crashed"
    merr,       \* the exception that ended Program.run ("" type when none)
    wakeups,    \* sleep(60) calls of Program.run that have returned
    chnums,     \* KeithleyDataThread.chnums
    wpc,        \* DataThreadBase.run: "idle", "check", "capture", "output",
                \*   "exited" (run returned), "failed" (run raised)
    werr,       \* the exception that ended the worker thread
    stopping,   \* the threading.Event `stopping`
    sample,     \* the values capture_sample has yielded in this cycle
    cycles,     \* samples written so far (the elapsed time of the model)
    file,       \* the lines of the output file
    lastread,   \* Keithley2700._lastread
    config,     \* Keithley2700._config: insertion-ordered entries
    cjt,        \* Keithley2700.cold_junction_temp: <<>> while never assigned
    op,         \* the client call in progress: [name, ch, bound]
    todo,       \* the commands the call in progress still has to send
    cpc,        \* client: "idle", "run", "wait_err", "wait_query"
    cmdrec,     \* the latest _command call: what it wrote and consumed
    lastop,     \* the latest read() that ended: how, and with which value
    readlog,    \* the channels read() was called for in this cycle
    timeouts,   \* consecutive empty readline() results, modulo
    inbuf,      \* serial input buffer: the lines not yet read
    outq,       \* queries the instrument has received and not yet answered
    alive,      \* FALSE once the instrument has stopped responding
    sent,       \* the lines written to the port by the call in progress
    funcsel,    \* the latest FUNC command written without a channel list
    fhandle,    \* FileWriter.f: "open" or "closed"
    metadata,   \* the class attribute FileWriter.metadata (items in order)
    fs,         \* the names of the files that exist in the directory
    sinks,      \* the FileWriter objects constructed so far, in order
    conv,         \* the latest call of thermocouple_to_deg_c on its own
    convprev      \* the call before it

mainVars == <<mpc, merr, wakeups, chnums>>
workerVars == <<wpc, werr, sample, cycles, file>>
sessionVars == <<lastread, config, cjt>>
callVars == <<op, todo, cpc, cmdrec, timeouts, sent>>
portVars == <<inbuf, outq, alive>>

sinkVars == <<metadata, fs, sinks>>
convVars == <<conv, convprev>>
auxVars == <<fhandle, sinkVars, convVars>>

progVars == <<channels, mainVars, workerVars, stopping, sessionVars, callVars,
              lastop, readlog, portVars, funcsel>>
vars == <<progVars, auxVars>>

NoExc == [type |-> "", cmd |-> "", text |-> <<>>, code |-> <<>>]
Exc(type) == [NoExc EXCEPT !.type = type]

NoOp == [name |-> "", ch |-> 0, bound |-> FALSE]
NoCmd ==
    [cmd |-> "", error |-> FALSE, log |-> <<>>, rx |-> 0, err |-> <<>>,
     state |-> ""]
NoRead ==
    [done |-> FALSE, ch |-> 0, routed |-> FALSE, sent |-> <<>>, exc |-> "",
     val |-> None, raw |-> 0, cjt |-> <<>>]

\* The lines FileWriter.__init__ writes before any sample.
HeaderLines == Len(write_header(ClassMetadata, <<>>))

\* The program before Program.run: the data thread object is constructed
\* (its file is open and holds the header), nothing is connected.
ProgInit ==
    /\ channels \in ChannelLists
    /\ mpc = "init" /\ merr = NoExc /\ wakeups = 0 /\ chnums = <<>>
    /\ wpc = "idle" /\ werr = NoExc /\ stopping = FALSE
    /\ sample = <<>> /\ cycles = 0
    /\ file = write_header(ClassMetadata, channels)
    /\ lastread = 0 /\ config = <<>> /\ cjt = <<>>
    /\ op = NoOp /\ todo = <<>> /\ cpc = "idle" /\ cmdrec = NoCmd
    /\ lastop = NoRead /\ readlog = <<>> /\ timeouts = 0
    /\ inbuf = <<>> /\ outq = <<>> /\ alive = TRUE
    /\ sent = <<>> /\ funcsel = ""
    /\ fhandle = "open"

\* No call of thermocouple_to_deg_c yet.
NoConv ==
    [done |-> FALSE, mv |-> 0, cjt |-> <<>>, entry |-> 0,
     out |-> [exc |-> "", val |-> None]]

Init ==
    /\ ProgInit
    /\ metadata = ClassMetadata /\ fs = {} /\ sinks = <<>>
    /\ conv = NoConv /\ convprev = NoConv

----------------------------------------------------------------------------
(* Calls and returns.  The client is used by one thread at a time: by      *)
(* Program.run while it connects, by the worker afterwards.                *)

\* An exception leaves the client call and ends the thread that made it:
\* Program.run catches KeyboardInterrupt only, run() catches nothing.
Raise(e) ==
    /\ cpc' = "idle" /\ op' = NoOp /\ todo' = <<>>
    /\ IF mpc = "connect"
       THEN /\ mpc' = "crashed" /\ merr' = e
            /\ UNCHANGED <<wakeups, chnums, workerVars>>
       ELSE /\ wpc' = "failed" /\ werr' = e
            /\ UNCHANGED <<mainVars, sample, cycles, file>>

\* _command(cmd, error), up to its return (error = False) or its readline.
Write(cmd, error) ==
    /\ sent' = sent \o command_writes(cmd, error)
    /\ funcsel' = IF cmd \in FuncSelects THEN cmd ELSE funcsel
    /\ outq' = outq \o Queries(command_writes(cmd, error))
    /\ cmdrec' = [cmd |-> cmd, error |-> error,
                  log |-> command_writes(cmd, error), rx |-> 0,
                  err |-> <<>>,
                  state |-> IF error THEN "reading" ELSE "returned"]

----------------------------------------------------------------------------
(* Program.run and the connect of the data source.                          *)

\* KeithleyDataThread.connect, Keithley2700.__init__ and _reset up to the
\* identification query: open the port (which may fail), write the line
\* terminators, discard the input and ask *IDN?.
connect ==
    /\ mpc = "init"
    /\ \E opened \in BOOLEAN :
         IF opened
         THEN /\ mpc' = "connect"
              /\ op' = [name |-> "reset", ch |-> 0, bound |-> FALSE]
              /\ inbuf' = <<>>
              /\ cmdrec' = [cmd |-> "*IDN?", error |-> FALSE,
                            log |-> command_writes("*IDN?", FALSE),
                            rx |-> 0, err |-> <<>>, state |-> "returned"]
              /\ sent' = <<"\r\n\r\n">> \o command_writes("*IDN?", FALSE)
              /\ outq' = outq \o Queries(command_writes("*IDN?", FALSE))
              /\ cpc' = "wait_query" /\ timeouts' = 0
              /\ UNCHANGED <<merr, todo>>
         ELSE /\ mpc' = "crashed" /\ merr' = Exc("KeithleyError")
              /\ UNCHANGED <<op, inbuf, cmdrec, sent, outq, cpc, timeouts,
                             todo>>
    /\ UNCHANGED <<channels, auxVars, funcsel, wakeups, chnums, workerVars, stopping,
                   sessionVars, lastop, readlog, alive>>

\* _reset after the identification: the answer must start with KEITHLEY;
\* then the initialisation commands are queued.
reset_identified ==
    /\ cpc = "wait_query" /\ op.name = "reset" /\ inbuf # <<>>
    /\ LET result == Strip(Head(inbuf), Whitespace)
       IN  /\ inbuf' = Tail(inbuf)
           /\ timeouts' = 0
           /\ IF Head(result) # "KEITHLEY"
              THEN /\ Raise(Exc("KeithleyError"))
                   /\ UNCHANGED <<cmdrec, sent>>
              ELSE /\ todo' = << [cmd |-> "*RST", error |-> FALSE],
                                 [cmd |-> "SYST:BEEP off", error |-> FALSE],
                                 [cmd |-> "ROUT:CLOSE:ACON 1", error |-> FALSE],
                                 [cmd |-> "TRAC:CLEAR", error |-> TRUE] >>
                   /\ cpc' = "run"
                   /\ UNCHANGED <<op, cmdrec, sent, mainVars, workerVars>>
    /\ UNCHANGED <<channels, auxVars, funcsel, stopping, sessionVars, lastop, readlog, outq, alive>>

\* reset() after _reset, and the rest of Keithley2700.__init__.
reset ==
    /\ cpc = "run" /\ op.name = "reset" /\ todo = <<>>
    /\ lastread' = 0 /\ config' = <<>>
    /\ cpc' = "idle" /\ op' = NoOp
    /\ UNCHANGED <<channels, auxVars, funcsel, mainVars, workerVars, stopping, cjt, todo,
                   cmdrec, timeouts, sent, lastop, readlog, portVars>>

\* The commands add() sends for the descriptor c: those of
\* setup_ch(func, channel, *args, **kws).
add_commands(c) ==
    setup_ch_call(c.func, <<c.channel * 1000>> \o c.args, c.kws)

\* The loop of KeithleyDataThread.connect: Channel.setup and add() up to
\* the first command of setup_ch.
add ==
    /\ mpc = "connect" /\ cpc = "idle" /\ Len(chnums) < Len(channels)
    /\ LET c == channels[Len(chnums) + 1]
       IN  IF c.func \notin ValidFuncs
           THEN /\ mpc' = "crashed" /\ merr' = Exc("ValueError")
                /\ UNCHANGED <<config, op, todo, cpc, sent>>
           ELSE /\ config' = DictSet(config,
                      [channel |-> c.channel, func |-> c.func,
                       args |-> c.args, kws |-> c.kws])
                /\ op' = [name |-> "add", ch |-> c.channel, bound |-> TRUE]
                /\ todo' = [i \in 1..Len(add_commands(c))
                              |-> [cmd |-> add_commands(c)[i],
                                   error |-> TRUE]]
                /\ cpc' = "run" /\ sent' = <<>>
                /\ UNCHANGED <<mpc, merr>>
    /\ UNCHANGED <<channels, auxVars, funcsel, wakeups, chnums, workerVars, stopping, lastread,
                   cjt, cmdrec, timeouts, lastop, readlog, portVars>>

\* add() returns the channel; connect appends it to chnums.
add_return ==
    /\ cpc = "run" /\ op.name = "add" /\ todo = <<>>
    /\ chnums' = Append(chnums, op.ch)
    /\ cpc' = "idle" /\ op' = NoOp
    /\ UNCHANGED <<channels, auxVars, funcsel, mpc, merr, wakeups, workerVars, stopping,
                   sessionVars, todo, cmdrec, timeouts, sent, lastop, readlog,
                   portVars>>

\* ExitStack.enter_context(ds): __enter__ starts the thread.
enter ==
    /\ mpc = "connect" /\ cpc = "idle" /\ Len(chnums) = Len(channels)
    /\ mpc' = "waiting" /\ wpc' = "check"
    /\ UNCHANGED <<channels, auxVars, funcsel, merr, wakeups, chnums, werr, sample, cycles,
                   file, stopping, sessionVars, callVars, lastop, readlog, portVars>>

\* while True: time.sleep(60) -- one sleep returns and the next begins.
sleep ==
    /\ mpc = "waiting" /\ wakeups < MaxWakeups
    /\ wakeups' = wakeups + 1
    /\ UNCHANGED <<channels, auxVars, funcsel, mpc, merr, chnums, workerVars, stopping,
                   sessionVars, callVars, lastop, readlog, portVars>>

\* Ctrl-C while Program.run sleeps: the with block is left.
KeyboardInterrupt ==
    /\ mpc = "waiting"
    /\ mpc' = "exiting"
    /\ UNCHANGED <<channels, auxVars, funcsel, merr, wakeups, chnums, workerVars, stopping,
                   sessionVars, callVars, lastop, readlog, portVars>>

\* stop(): stopping.set(), then join() begins.
stop ==
    /\ mpc = "exiting"
    /\ stopping' = TRUE
    /\ mpc' = "joining"
    /\ UNCHANGED <<channels, auxVars, funcsel, merr, wakeups, chnums, workerVars, sessionVars,
                   callVars, lastop, readlog, portVars>>

\* A stop() that sets the event and returns without waiting.
JoinedNoWait == TRUE

\* Thread.join(): returns once the thread has ended.
Joined == wpc \in {"exited", "failed"}

\* stop() returns from join(); run() prints and returns.
join ==
    /\ mpc = "joining" /\ Joined
    /\ mpc' = "done"
    /\ UNCHANGED <<channels, auxVars, funcsel, merr, wakeups, chnums, workerVars, stopping,
                   sessionVars, callVars, lastop, readlog, portVars>>

----------------------------------------------------------------------------
(* The protocol client: _command, _query and read.                          *)

\* _command(cmd, error): the writes; with error it goes on to read the
\* answer to SYST:ERR?.
command ==
    /\ cpc = "run" /\ todo # <<>>
    /\ Write(Head(todo).cmd, Head(todo).error)
    /\ todo' = Tail(todo)
    /\ IF Head(todo).error
       THEN cpc' = "wait_err" /\ timeouts' = 0
       ELSE UNCHANGED <<cpc, timeouts>>
    /\ UNCHANGED <<channels, auxVars, mainVars, workerVars, stopping, sessionVars, op,
                   lastop, readlog, inbuf, alive>>

\* The end of _command: `code, text = err.split(",")`, int(code), and the
\* KeithleyError for a code other than 0.  The exception raised for the
\* answer err to the command cmd (NoExc when it returns).
command_check(cmd, err) ==
    LET pieces == Split(err, ",")
    IN  IF Len(pieces) # 2 THEN Exc("ValueError")
        ELSE IF ~IsNumber(Strip(pieces[1], Whitespace)) THEN Exc("ValueError")
        ELSE IF ParseInt(Strip(pieces[1], Whitespace)) # 0
        THEN [type |-> "KeithleyError", cmd |-> cmd,
              text |-> Strip(Strip(pieces[2], Whitespace), {"\""}),
              code |-> pieces[1]]
        ELSE NoExc

\* readline() of _command returns a line: the loop ends, the line is
\* checked.
command_readline ==
    /\ cpc = "wait_err" /\ inbuf # <<>>
    /\ inbuf' = Tail(inbuf)
    /\ timeouts' = 0
    /\ \E e \in {command_check(cmdrec.cmd, Head(inbuf))} :
           IF e = NoExc
           THEN /\ cmdrec' = [cmdrec EXCEPT !.rx = @ + 1, !.err = Head(inbuf),
                                             !.state = "returned"]
                /\ cpc' = "run"
                /\ UNCHANGED <<op, todo, mainVars, workerVars>>
           ELSE /\ cmdrec' = [cmdrec EXCEPT !.rx = @ + 1, !.err = Head(inbuf),
                                             !.state = "raised"]
                /\ Raise(e)
    /\ UNCHANGED <<channels, auxVars, funcsel, stopping, sessionVars, sent, lastop, readlog,
                   outq, alive>>

\* readline() returns an empty line after its timeout: `while not err` and
\* `while not ret` call it again.
readline_timeout ==
    /\ cpc \in {"wait_err", "wait_query"} /\ inbuf = <<>>
    /\ timeouts' = (timeouts + 1) % (MaxTimeouts + 1)
    /\ UNCHANGED <<channels, auxVars, funcsel, mainVars, workerVars, stopping, sessionVars, op,
                   todo, cpc, cmdrec, sent, lastop, readlog, portVars>>

\* The instrument answers the oldest query it has received.
instrument_answers ==
    /\ alive /\ outq # <<>>
    /\ \E line \in Answers(Head(outq)) : inbuf' = Append(inbuf, line)
    /\ outq' = Tail(outq)
    /\ UNCHANGED <<channels, auxVars, funcsel, mainVars, workerVars, stopping, sessionVars,
                   callVars, lastop, readlog, alive>>

\* The instrument stops responding: it answers no query any more.
instrument_hangs ==
    /\ alive /\ outq # <<>>
    /\ alive' = FALSE
    /\ UNCHANGED <<channels, auxVars, funcsel, mainVars, workerVars, stopping, sessionVars,
                   callVars, lastop, readlog, inbuf, outq>>

\* The commands read() sends before the query when channel is not the
\* channel read last: the relay, or for an internal channel the set-up
\* again, called as setup_ch(func, *args, **kws).
read_route(channel, entry) ==
    IF channel >= 100
    THEN <<"ROUT:CLOS (@" \o ToString(channel) \o ")">>
    ELSE <<"ROUT:OPEN:ALL">> \o setup_ch_call(entry.func, entry.args, entry.kws)

\* capture_sample's next read(c): the checks of read() and the commands it
\* queues.  func, args and kws are bound only when channel # _lastread.
read ==
    /\ wpc = "capture" /\ cpc = "idle" /\ Len(sample) < Len(chnums)
    /\ LET channel == chnums[Len(sample) + 1]
       IN  /\ readlog' = Append(readlog, channel)
           /\ sent' = <<>>
           /\ IF ~DictHas(config, channel)
              THEN /\ Raise(Exc("KeithleyError"))
                   /\ lastop' = [NoRead EXCEPT !.done = TRUE, !.ch = channel,
                                               !.exc = "KeithleyError"]
              ELSE /\ op' = [name |-> "read", ch |-> channel,
                             bound |-> (channel # lastread)]
                   /\ todo' = IF channel # lastread
                              THEN [i \in 1..Len(read_route(channel, DictGet(config, channel)))
                                      |-> [cmd |-> read_route(channel, DictGet(config, channel))[i],
                                           error |-> TRUE]]
                              ELSE <<>>
                   /\ cpc' = "run"
                   /\ UNCHANGED <<mainVars, workerVars, lastop>>
    /\ UNCHANGED <<channels, auxVars, funcsel, stopping, sessionVars, cmdrec, timeouts,
                   portVars>>

\* _query("READ?"): the command without error check, then readline.
read_query ==
    /\ cpc = "run" /\ op.name = "read" /\ todo = <<>>
    /\ Write("READ?", FALSE)
    /\ cpc' = "wait_query" /\ timeouts' = 0
    /\ UNCHANGED <<channels, auxVars, mainVars, workerVars, stopping, sessionVars, op,
                   todo, lastop, readlog, inbuf, alive>>

\* The raw number of a reading line: _query strips it, read() splits it
\* at the commas, drops the 3-character unit of the first piece and
\* converts the rest with float().
read_raw(line) ==
    LET ret == Split(Strip(line, Whitespace), ",")
    IN  ParseInt(SubSeq(ret[1], 1, Len(ret[1]) - 1))

\* The end of read(): the conversion of val by the channel's function.
\* bound says whether func and kws were assigned (channel # _lastread).
\* [exc, val, cjt]: the exception raised, the value returned,
\* cold_junction_temp afterwards.
read_value(val, bound, entry, cj) ==
    LET rtd_val == rtd_to_deg_c(val, entry.kws.alpha, entry.kws.ro)
        tc == thermocouple_to_deg_c(val, entry.kws.sensor_type, cj)
    IN  IF ~bound
        THEN [exc |-> "UnboundLocalError", val |-> None, cjt |-> cj]
        ELSE IF entry.func = "RTD"
        THEN [exc |-> "", val |-> Some(rtd_val),
              cjt |-> IF entry.kws.cold_junction THEN Some(rtd_val) ELSE cj]
        ELSE IF entry.func = "THERMOCOUPLE"
        THEN [exc |-> tc.exc, val |-> tc.val, cjt |-> cj]
        ELSE [exc |-> "", val |-> Some(val), cjt |-> cj]

\* read() from the answer to READ? to its return, and the next step of the
\* generator of capture_sample.
read_result ==
    /\ cpc = "wait_query" /\ op.name = "read" /\ inbuf # <<>>
    /\ inbuf' = Tail(inbuf)
    /\ timeouts' = 0
    /\ lastread' = op.ch
    /\ \E val \in {read_raw(Head(inbuf))} :
       \E r \in {read_value(val, op.bound, DictGet(config, op.ch), cjt)} :
           /\ cjt' = r.cjt
           /\ lastop' = [done |-> TRUE, ch |-> op.ch, routed |-> op.bound,
                         sent |-> sent, exc |-> r.exc, val |-> r.val,
                         raw |-> val, cjt |-> cjt]
           /\ IF r.exc # ""
              THEN Raise(Exc(r.exc))
              ELSE /\ sample' = Append(sample, r.val)
                   /\ cpc' = "idle" /\ op' = NoOp
                   /\ UNCHANGED <<todo, mainVars, wpc, werr, cycles, file>>
    /\ UNCHANGED <<channels, auxVars, funcsel, stopping, config, cmdrec, sent, readlog, outq,
                   alive>>

----------------------------------------------------------------------------
(* The sampling thread (DataThreadBase.run) and the file.                   *)

\* The loop test of run(): leave when stopping is set, else take the time
\* and begin capture_sample.
run ==
    /\ wpc = "check"
    /\ IF stopping
       THEN /\ wpc' = "exited"
            /\ UNCHANGED <<sample, readlog>>
       ELSE /\ cycles < MaxCycles
            /\ wpc' = "capture" /\ sample' = <<>> /\ readlog' = <<>>
    /\ UNCHANGED <<channels, auxVars, funcsel, mainVars, werr, cycles, file, stopping,
                   sessionVars, callVars, lastop, portVars>>

\* output_data((tm,) + tuple(sample)): format, write, flush.
output_data ==
    /\ wpc = "capture" /\ cpc = "idle" /\ Len(sample) = Len(chnums)
    /\ LET values == <<Some(cycles)>> \o sample
       IN  IF FormatRaises(values)
           THEN /\ wpc' = "failed" /\ werr' = Exc("TypeError")
                /\ UNCHANGED <<file, cycles>>
           ELSE /\ file' = Append(file, FormatLine(values, Len(channels)))
                /\ cycles' = cycles + 1
                /\ wpc' = "check"
                /\ UNCHANGED werr
    /\ UNCHANGED <<channels, auxVars, funcsel, mainVars, sample, stopping, sessionVars,
                   callVars, lastop, readlog, portVars>>

----------------------------------------------------------------------------

Next ==
    \/ connect \/ reset_identified \/ reset \/ add \/ add_return \/ enter
    \/ sleep \/ KeyboardInterrupt \/ stop \/ join
    \/ command \/ command_readline \/ readline_timeout
    \/ instrument_answers \/ instrument_hangs
    \/ read \/ read_query \/ read_result
    \/ run \/ output_data

Spec == Init /\ [][Next]_vars

\* The steps of the thread that runs the client.
ThreadStep ==
    \/ command \/ command_readline \/ readline_timeout
    \/ read \/ read_query \/ read_result \/ run \/ output_data

\* Scheduling: a thread that can run does run, stop() and join() go on once
\* called, and the instrument answers as long as it responds.  Nothing
\* forces Ctrl-C, a wake-up or the instrument's failure to happen.  The
\* sessions are the thermocouple block and a single RTD.
FairInit ==
    /\ Init
    /\ channels \in { <<RTD("RTD", 106, TRUE), Thermocouple("T12", 112)>>,
                       <<RTD("RTD", 106, TRUE)>> }

FairSpec ==
    /\ FairInit /\ [][Next]_vars
    /\ WF_vars(ThreadStep) /\ WF_vars(stop) /\ WF_vars(join)
    /\ WF_vars(instrument_answers)

----------------------------------------------------------------------------
(* The construction of file writers (FileWriter.__init__) in a directory    *)
(* that may already hold files.                                             *)

\* Writers constructed in one run, and indices of files present before.
MaxSinks == 3
MaxExisting == 3

\* f"{idx:03}": at least three digits, padded with zeros.
Pad3(idx) ==
    IF idx < 10 THEN "00" \o ToString(idx)
    ELSE IF idx < 100 THEN "0" \o ToString(idx) ELSE ToString(idx)

\* fname after `if fname is None` and `if fname: fname += "_"`.
Prefix(fname) == IF fname = "" THEN "" ELSE fname \o "_"

\* suffix: fname_suffix is None, so the attribute `name` ("" when the
\* class has none), with "_" before it when it is not empty.
Suffix(name) == IF name = "" THEN "" ELSE "_" \o name

\* f"{fname}{idx:03}{suffix}.dat"
Name(fname, idx, suffix) == fname \o Pad3(idx) \o suffix \o ".dat"

\* The while loop of __init__: count idx up until the name does not exist.
RECURSIVE Probe(_, _, _, _)
Probe(fname, suffix, files, idx) ==
    IF Name(fname, idx, suffix) \notin files THEN idx
    ELSE Probe(fname, suffix, files, idx + 1)

\* An index taken from the number of files present.
FirstFreeByCount(fname, suffix, files) == Cardinality(files)

\* The index __init__ chooses: idx = 0, then the loop.
FirstFree(fname, suffix, files) == Probe(fname, suffix, files, 0)

\* The arguments writers are constructed with: fname (None or a prefix),
\* the class's name, the metadata dict.
FileNames == {"", "run"}
SinkNames == {"data", "keithley"}
MetadataArgs ==
    { <<>>,
      <<[k |-> "operator", v |-> "A"]>>,
      <<[k |-> "operator", v |-> "B"], [k |-> "Timestamp", v |-> "later"]>> }

\* Files that may exist before the first writer is constructed.
ExistingNames ==
    {Name(Prefix(""), i, Suffix("data")) : i \in 0..(MaxExisting - 1)}

\* FileWriter.__init__(fname, metadata): update self.metadata, choose the
\* name, open the file for writing (which creates it), write the header.
FileWriter ==
    /\ Len(sinks) < MaxSinks
    /\ \E fname \in FileNames, name \in SinkNames, arg \in MetadataArgs :
         LET idx == FirstFree(Prefix(fname), Suffix(name), fs)
             path == Name(Prefix(fname), idx, Suffix(name))
         IN  /\ metadata' = Update(metadata, arg)
             /\ fs' = fs \cup {path}
             /\ sinks' = Append(sinks,
                    [fname |-> Prefix(fname), suffix |-> Suffix(name),
                     idx |-> idx, name |-> path, arg |-> arg, before |-> fs,
                     header |-> write_header(Update(metadata, arg), <<>>)])
    /\ UNCHANGED <<progVars, fhandle, convVars>>

SinkInit ==
    /\ ProgInit /\ channels = <<>>
    /\ metadata = ClassMetadata /\ sinks = <<>>
    /\ conv = NoConv /\ convprev = NoConv
    /\ fs \in SUBSET ExistingNames

SinkNext == FileWriter

SinkSpec == SinkInit /\ [][SinkNext]_vars

----------------------------------------------------------------------------
(* thermocouple_to_deg_c on its own, over inputs around its limits.         *)

\* Inputs in thousandths of a millivolt: around -100 and 100, around each
\* mv_max of the table, inside each entry, far outside.
MvInputs ==
    {-1080000, -100001, -100000, -50000, -6000, -1, 0, 1, 10000, 20643,
     20644, 20645, 30000, 54885, 54886, 54887, 100000, 100001, 1080000}

\* The calls made: with cold_junction_temp never assigned for every input,
\* and with it assigned (0 or 25 degrees) for the inputs whose polynomial
\* value fits the fixed-point numbers.
ConvInputs ==
    (MvInputs \X {<<>>})
        \cup ({mv \in MvInputs : mv >= -6000} \X {<<0>>, <<25000>>})

\* One call thermocouple_to_deg_c(mv, sensor_type="K"): its result, and
\* the table entry its loop stopped at (0 when it evaluated none).
convert ==
    /\ \E in \in ConvInputs :
         conv' = [done |-> TRUE, mv |-> in[1], cjt |-> in[2],
                entry |-> IF Abs(in[1]) > 100000 THEN 0
                          ELSE FirstEntry(THERMOCOUPLE_TABLES["K"], in[1], 1),
                out |-> thermocouple_to_deg_c(in[1], "K", in[2])]
    /\ convprev' = conv
    /\ UNCHANGED <<progVars, fhandle, sinkVars>>

ConvInit ==
    /\ ProgInit /\ channels = <<>>
    /\ metadata = ClassMetadata /\ fs = {} /\ sinks = <<>>
    /\ conv = NoConv /\ convprev = NoConv

ConvNext == convert

ConvSpec == ConvInit /\ [][ConvNext]_vars

----------------------------------------------------------------------------
(* Properties.                                                              *)

\* The sample lines of the file: what follows the header.
SampleLines == Len(file) - HeaderLines

\* The exception that ended the thread using the client.
ThreadExc == IF mpc = "crashed" THEN merr ELSE werr

\* C1: stop() returns (Program.run reaches "done") only after the worker
\* thread has ended, and once it has returned the file is never written
\* again, in every interleaving of the worker with the caller.
C1_StopJoinsWorker ==
    /\ [](mpc = "done" => wpc \in {"exited", "failed"})
    /\ [][mpc = "done" => file' = file /\ wpc' = wpc]_vars

\* stop() has returned although it was called before the first cycle had
\* completed: the worker has exited and the file holds no sample line.
C1_StopBeforeFirstCycle ==
    mpc = "done" /\ wpc = "exited" /\ cycles = 0 /\ SampleLines = 0

\* C9: an error-checked _command writes SYST:CLE, the command and
\* SYST:ERR?, in this order and nothing else, and has consumed exactly one
\* non-empty line when it ends; without error check it writes the command
\* alone and consumes nothing.
C9_CommandHandshake ==
    /\ cmdrec.state # "" =>
         cmdrec.log = IF cmdrec.error
                      THEN <<"SYST:CLE", cmdrec.cmd, "SYST:ERR?">>
                      ELSE <<cmdrec.cmd>>
    /\ cmdrec.state = "reading" => cmdrec.error /\ cmdrec.rx = 0
    /\ cmdrec.state \in {"returned", "raised"} =>
         /\ cmdrec.rx = IF cmdrec.error THEN 1 ELSE 0
         /\ cmdrec.error => cmdrec.err # <<>>
    /\ cmdrec.state = "raised" => cmdrec.error

\* An error-checked command of read() has returned after its handshake.
C9_CheckedCommandReturned ==
    /\ cmdrec.state = "returned" /\ cmdrec.error /\ cmdrec.rx = 1
    /\ op.name = "read" /\ Len(sent) = 3

\* The configuration entry of the channel of the latest read().
LastEntry == DictGet(config, lastop.ch)

\* The latest read() was a thermocouple read of a millivolt value that is
\* in range and below some breakpoint of the table.
ValidThermocoupleRead ==
    /\ lastop.done /\ DictHas(config, lastop.ch)
    /\ LastEntry.func = "THERMOCOUPLE"
    /\ Abs(lastop.raw) <= 100000
    /\ FirstEntry(THERMOCOUPLE_TABLES[LastEntry.kws.sensor_type],
                  lastop.raw, 1) # 0

\* The polynomial value of the latest thermocouple read.
LastPolynomial ==
    LET table == THERMOCOUPLE_TABLES[LastEntry.kws.sensor_type]
    IN  Polynomial(table[FirstEntry(table, lastop.raw, 1)].poly, lastop.raw)

\* The value the conversion of the channel's kind gives for the raw
\* reading of the latest read(), with the cold-junction reference ref.
LastConverted(ref) ==
    IF LastEntry.func = "RTD"
    THEN Some(rtd_to_deg_c(lastop.raw, LastEntry.kws.alpha, LastEntry.kws.ro))
    ELSE IF LastEntry.func = "THERMOCOUPLE"
    THEN IF ValidThermocoupleRead THEN Some(LastPolynomial + ref) ELSE None
    ELSE Some(lastop.raw)

\* The cold-junction reference a read() starts with, 0 while none is set.
LastReference == IF lastop.cjt = <<>> THEN 0 ELSE lastop.cjt[1]

\* C2: a read() of the channel that was read last sends the read query
\* and nothing else, and returns the channel's converted value.
C2_RereadReturnsConverted ==
    (lastop.done /\ DictHas(config, lastop.ch) /\ ~lastop.routed) =>
        /\ lastop.sent = <<"READ?">>
        /\ lastop.exc = ""
        /\ lastop.val = LastConverted(LastReference)

\* C3: a valid thermocouple read made while no cold-junction source has
\* been read succeeds and returns the polynomial value plus 0.
C3_DefaultReferenceIsZero ==
    (ValidThermocoupleRead /\ lastop.routed /\ lastop.cjt = <<>>) =>
        /\ lastop.exc = ""
        /\ lastop.val = Some(LastPolynomial + 0)

\* C4: after every read() the cold-junction reference is the temperature
\* of the latest read of a channel flagged as its source, a read of any
\* other channel leaves it alone, and a valid thermocouple read returns
\* its polynomial value plus the reference.
C4_ReferenceFollowsSource ==
    (lastop.done /\ DictHas(config, lastop.ch)) =>
        /\ IF LastEntry.func = "RTD" /\ LastEntry.kws.cold_junction
           THEN cjt = LastConverted(0)
           ELSE cjt = lastop.cjt
        /\ ValidThermocoupleRead =>
             lastop.val = Some(LastPolynomial + LastReference)

\* C5: an acquisition cycle calls read() for the registered channels in
\* registration order, once each, and is cut short only by an error the
\* instrument reports: otherwise it yields one value per channel.
C5_CycleReadsAllInOrder ==
    /\ Len(readlog) <= Len(chnums)
    /\ readlog = SubSeq(chnums, 1, Len(readlog))
    /\ wpc = "capture" => Len(sample) \in {Len(readlog), Len(readlog) - 1}
    /\ (wpc = "failed" /\ cmdrec.state # "raised") =>
         /\ Len(sample) = Len(chnums)
         /\ readlog = chnums

\* C6: when the orchestrator wakes up from its sleep and the session's
\* thread has ended with an exception, it leaves its wait.
C6_FailureReachesOwner ==
    [][(mpc = "waiting" /\ wpc = "failed" /\ wakeups' # wakeups)
          => mpc' # "waiting"]_vars

\* C7: once stop() has set the stop signal the worker ends and stop()
\* returns, also when the instrument has stopped responding.
C7_StopTerminates ==
    stopping ~> (wpc \in {"exited", "failed"} /\ mpc = "done")

\* C8: when the cycle's sample holds an absent value, output_data writes
\* one more line to the file and the loop goes on.
C8_AbsentValueWritten ==
    [][(/\ wpc = "capture" /\ cpc = "idle" /\ Len(sample) = Len(chnums)
        /\ \E i \in 1..Len(sample) : sample[i] = None
        /\ wpc' # wpc)
          => (Len(file') = Len(file) + 1 /\ wpc' = "check")]_vars

\* The code and the message of an answer "<code>,<message>": what stands
\* before its first comma, and what follows it without blanks and quotes.
AnswerCode(line) == ParseInt(Strip(Split(line, ",")[1], Whitespace))

AnswerMessage(line) ==
    Strip(Strip(SubSeq(line, Len(Split(line, ",")[1]) + 2, Len(line)),
                Whitespace), {"\""})

\* C10: an error-checked command returns when the answer's code is 0 and
\* raises KeithleyError with the command, the message and the code when it
\* is not; it raises nothing else.
C10_NonZeroCodeRaisesKeithleyError ==
    /\ (cmdrec.state = "returned" /\ cmdrec.error) =>
         AnswerCode(cmdrec.err) = 0
    /\ cmdrec.state = "raised" =>
         /\ AnswerCode(cmdrec.err) # 0
         /\ ThreadExc.type = "KeithleyError"
         /\ ThreadExc.cmd = cmdrec.cmd
         /\ ThreadExc.text = AnswerMessage(cmdrec.err)
         /\ ParseInt(ThreadExc.code) = AnswerCode(cmdrec.err)

\* The initialisation commands _reset sends after the identification.
InitCommands == {"SYST:BEEP off", "ROUT:CLOSE:ACON 1", "TRAC:CLEAR"}

\* C11: each initialisation command of _reset (beeper off, close the
\* baseline relay, clear the trace buffer) is sent as an error-checked
\* command: SYST:CLE before it and SYST:ERR? after it.
C11_InitCommandsChecked ==
    (cmdrec.state # "" /\ cmdrec.cmd \in InitCommands) =>
        /\ cmdrec.error
        /\ cmdrec.log = <<"SYST:CLE", cmdrec.cmd, "SYST:ERR?">>

\* The functions add() is documented to support.
SupportedKinds ==
    {"VOLT:DC", "VOLT:AC", "CURR:DC", "CURR:AC", "RES", "FRES", "TEMP",
     "FREQ", "PER", "CONT", "RTD", "THERMOCOUPLE"}

\* add() has raised ValueError for the channel connect was setting up.
AddRejected ==
    mpc = "crashed" /\ merr.type = "ValueError" /\ cmdrec.state # "raised"

\* C12: add() raises ValueError, storing no configuration, only for a
\* function outside the supported set; every supported function is
\* accepted.
C12_SupportedKindsAccepted ==
    AddRejected =>
        /\ channels[Len(chnums) + 1].func \notin SupportedKinds
        /\ ~DictHas(config, channels[Len(chnums) + 1].channel)

\* The lines written when each command of cmds is sent error-checked.
RECURSIVE Checked(_)
Checked(cmds) ==
    IF cmds = <<>> THEN <<>>
    ELSE <<"SYST:CLE", Head(cmds), "SYST:ERR?">> \o Checked(Tail(cmds))

\* read() has written READ? after routing to a channel that was not the
\* channel read last.
RoutedQuery == op.name = "read" /\ op.bound /\ cpc = "wait_query"

\* C13: before the READ? of a channel other than the one read last, read()
\* sends one ROUT:CLOS for a channel >= 100, and for a channel < 100
\* ROUT:OPEN:ALL followed by the commands add() sent for that channel.
C13_RouteThenSameSetup ==
    RoutedQuery =>
        sent = Checked(IF op.ch >= 100
                       THEN <<"ROUT:CLOS (@" \o ToString(op.ch) \o ")">>
                       ELSE <<"ROUT:OPEN:ALL">>
                                \o add_commands(DictGet(config, op.ch)))
               \o <<"READ?">>

\* C14: when Program.run ends after a KeyboardInterrupt, the session has
\* been stopped and joined, no write is in flight and its output file is
\* closed.
C14_InterruptStopsAndCloses ==
    mpc = "done" =>
        /\ stopping /\ wpc \in {"exited", "failed"}
        /\ fhandle = "closed"

\* C15: the header a writer writes depends only on the metadata passed to
\* its own constructor: it is the header of the class's metadata updated
\* with that argument, whatever was passed to writers constructed before.
C15_HeaderFromOwnMetadata ==
    \A n \in 1..Len(sinks) :
        sinks[n].header = write_header(Update(ClassMetadata, sinks[n].arg), <<>>)

\* The indices below idx are all taken in files, for names with this
\* prefix and suffix.
AllTaken(fname, suffix, files, idx) ==
    \A j \in 0..(idx - 1) : Name(fname, j, suffix) \in files

\* C16: each writer is given the smallest index whose name did not exist
\* when it was constructed, never the name of an existing file, and
\* writers constructed with the same prefix and suffix have distinct
\* indices.
C16_SmallestFreeIndex ==
    /\ \A n \in 1..Len(sinks) :
         /\ sinks[n].name \notin sinks[n].before
         /\ sinks[n].name = Name(sinks[n].fname, sinks[n].idx, sinks[n].suffix)
         /\ AllTaken(sinks[n].fname, sinks[n].suffix, sinks[n].before,
                     sinks[n].idx)
    /\ \A m, n \in 1..Len(sinks) :
         (m # n /\ sinks[m].fname = sinks[n].fname
                /\ sinks[m].suffix = sinks[n].suffix)
             => sinks[m].idx # sinks[n].idx

\* Three writers with the same prefix and suffix were constructed where
\* index 1 was taken and index 0 was free: they skip the existing file.
C16_ThreeSinksAroundExisting ==
    /\ Len(sinks) = 3
    /\ \A n \in 1..3 : sinks[n].fname = "" /\ sinks[n].suffix = "_data"
    /\ sinks[1].before = {Name("", 1, "_data")}
    /\ sinks[1].idx = 0 /\ sinks[2].idx = 2 /\ sinks[3].idx = 3

\* The entries of the K table whose upper bound strictly exceeds mv.
Exceeding(mv) ==
    {i \in 1..Len(THERMOCOUPLE_TABLES["K"]) :
        THERMOCOUPLE_TABLES["K"][i].mv_max > mv}

\* The entry the conversion is to evaluate: none (0) for |mv| > 100 or
\* when no upper bound exceeds mv, else the first that does.
ExpectedEntry(mv) ==
    IF Abs(mv) > 100000 \/ Exceeding(mv) = {} THEN 0
    ELSE CHOOSE i \in Exceeding(mv) : \A j \in Exceeding(mv) : i <= j

\* C17: thermocouple_to_deg_c returns no value for |mv| > 100 and when no
\* entry's upper bound exceeds mv; otherwise it evaluates the first entry,
\* in table order, whose upper bound strictly exceeds mv (and returns its
\* polynomial plus the reference); the entry selected never goes down as
\* mv goes up.
C17_FirstExceedingEntry ==
    /\ conv.done =>
         /\ conv.entry = ExpectedEntry(conv.mv)
         /\ conv.entry = 0 => conv.out = [exc |-> "", val |-> None]
         /\ (conv.entry # 0 /\ conv.cjt # <<>>) =>
                conv.out = [exc |-> "",
                          val |-> Some(Polynomial(
                                     THERMOCOUPLE_TABLES["K"][conv.entry].poly,
                                     conv.mv) + conv.cjt[1])]
         /\ (conv.entry # 0) => conv.out # [exc |-> "", val |-> None]
    /\ (convprev.done /\ convprev.entry # 0 /\ conv.entry # 0
            /\ convprev.mv <= conv.mv) => convprev.entry <= conv.entry

\* The conversion was applied just below and exactly at the second
\* breakpoint (20.644 mV): the entry selected went from the second to the
\* third, and both calls returned a value.
C17_AcrossBreakpoint ==
    /\ convprev.done /\ convprev.mv = 20643 /\ convprev.entry = 2
    /\ conv.mv = 20644 /\ conv.entry = 3
    /\ convprev.out.val # None /\ conv.out.val # None

\* read() has written READ? for a channel below 100.
InternalQuery == op.name = "read" /\ cpc = "wait_query" /\ op.ch < 100

\* C18: when read() writes READ? for a channel below 100, the latest FUNC
\* command written without a channel list selects that channel's
\* configured function.
C18_FunctionSelectedAtQuery ==
    InternalQuery =>
        funcsel = setup_ch(DictGet(config, op.ch).func, 0, None, None)[1]

\* The latest line written to the port by the call in progress.
LastWritten == sent[Len(sent)]

\* C19: the client stays in step with an instrument that answers each
\* query with one line: at most one query is unanswered and at most one
\* answer unread, only while the client waits for it, it is the answer to
\* the query written last, and no line is left unread when a call has
\* returned or raised.
C19_ClientInStep ==
    /\ Len(outq) + Len(inbuf) <= 1
    /\ (outq # <<>> \/ inbuf # <<>>) => cpc \in {"wait_err", "wait_query"}
    /\ outq # <<>> => Head(outq) = LastWritten
    /\ inbuf # <<>> => Head(inbuf) \in Answers(LastWritten)
    /\ cpc \in {"wait_err", "wait_query"} => LastWritten \in QueryCommands

\* A read() has returned a value after routing commands and the query,
\* and nothing is left in the port.
C19_RoutedReadReturned ==
    /\ lastop.done /\ lastop.exc = "" /\ lastop.routed
    /\ Len(lastop.sent) > 1
    /\ cpc = "idle" /\ inbuf = <<>> /\ outq = <<>>

\* add() has raised KeithleyError: a command of its setup_ch was answered
\* with an error code.
AddFailed ==
    /\ mpc = "crashed" /\ merr.type = "KeithleyError"
    /\ cmdrec.state = "raised" /\ cmdrec.cmd \notin InitCommands

\* C20: when a command of add()'s set-up raises KeithleyError, _config
\* is what it was before the call: it holds the channels added before and
\* not the channel of the failed call.
C20_FailedAddStoresNothing ==
    AddFailed =>
        /\ ~DictHas(config, channels[Len(chnums) + 1].channel)
        /\ [i \in 1..Len(config) |-> config[i].channel] = chnums

====
